---- MODULE Spec2Model ----
(***************************************************************************)
(* A model of cal_1582.py: the calendar functions of the module, the       *)
(* grid-filling loop of month_calendar, a library caller that keeps and    *)
(* overwrites the grids it receives, and the command-line entry point.     *)
(***************************************************************************)
EXTENDS Integers, Sequences, FiniteSets, TLC

(***************************************************************************)
(* Bounds of the model.                                                    *)
(***************************************************************************)
\* Library calls take their year from 1..MaxYear.
MaxYear == 2000
\* The caller keeps at most MaxHeld returned grids.
MaxHeld == 2
\* The caller overwrites at most MaxWrites cells.
MaxWrites == 1
\* The command line holds at most MaxArgs arguments after the program name.
MaxArgs == 2

Years == 1..MaxYear
Months == 1..12
\* The (month, year) pairs library calls are made with.
Queries == Months \X Years

(***************************************************************************)
(* Python values.                                                          *)
(***************************************************************************)
\* A Python list literal: indices start at 0.
list(t) == [i \in 0..(Len(t) - 1) |-> t[i + 1]]

\* list.index(x): the first index holding x.
index(l, x) == CHOOSE i \in DOMAIN l : l[i] = x /\ \A j \in DOMAIN l : l[j] = x => i <= j

\* len(list)
len(l) == Cardinality(DOMAIN l)

\* sum(l[lo:hi])
RECURSIVE sum_slice(_, _, _)
sum_slice(l, lo, hi) == IF lo >= hi THEN 0 ELSE l[lo] + sum_slice(l, lo + 1, hi)

(***************************************************************************)
(* Global data.                                                            *)
(***************************************************************************)
gregorian_reformation_year == 1582
gregorian_reformation_month == 10
gregorian_reformation_step == 10

\* The list literal the module binds gregorian_reformation_month_calendar to.
reformation_month_literal ==
    list(<< list(<< 1,  2,  3,  4, 15, 16, 17>>),
            list(<<18, 19, 20, 21, 22, 23, 24>>),
            list(<<25, 26, 27, 28, 29, 30, 31>>),
            list(<< 0,  0,  0,  0,  0,  0,  0>>),
            list(<< 0,  0,  0,  0,  0,  0,  0>>),
            list(<< 0,  0,  0,  0,  0,  0,  0>>) >>)

ancient_leapyear_period == 4
leapdays_function_error_off == 12 - 1
leapdays_function_error == 12
month_days == list(<<0, 31, 28, 31, 30, 31, 30, 31, 31, 30, 31, 30, 31>>)
week_days_sunday_first == list(<<"Sunday", "Monday", "Tuesday", "Wednesday", "Thursday",
                                 "Friday", "Saturday">>)
week_days == list(<<"Monday", "Tuesday", "Wednesday", "Thursday",
                    "Friday", "Saturday", "Sunday">>)
brief_week_days == list(<<"Mo", "Tu", "We", "Th", "Fr", "Sa", "Su">>)
month_names == list(<<"?", "January", "February", "March", "April", "May", "June",
                      "July", "August", "September", "October", "November", "December">>)
spaces_per_cell == 2

VARIABLES
    gregorian_reformation_month_calendar, \* the module's list object, cell by cell
    pc,             \* where control is
    fn,             \* the function being called
    month, year,    \* its arguments (month = 0 for a function of the year alone)
    ret,            \* the value returned
    month_calendar, \* month_calendar's local matrix
    row, column,    \* month_calendar's loop locals
    mthday,         \* the loop variable
    range_stop,     \* the stop of the loop's range, evaluated once
    held,           \* the references the library caller keeps
    first,          \* per query, the grid its first call returned
    writes,         \* the number of cells the caller has overwritten
    argv,           \* sys.argv
    stdout, stderr, \* what has been printed
    exit_status     \* -1 while the process runs

vars == <<gregorian_reformation_month_calendar, pc, fn, month, year, ret,
          month_calendar, row, column, mthday, range_stop, held, first, writes,
          argv, stdout, stderr, exit_status>>

loop_vars == <<month_calendar, row, column, mthday, range_stop>>
caller_vars == <<held, first, writes>>
main_vars == <<argv, stdout, stderr, exit_status>>

(***************************************************************************)
(* The calendar module of the standard library, as called by the source.   *)
(***************************************************************************)
calendar_isleap(y) == y % 4 = 0 /\ (y % 100 # 0 \/ y % 400 = 0)

calendar_leapdays(y1, y2) ==
    LET a == y1 - 1
        b == y2 - 1
    IN  ((b \div 4) - (a \div 4)) - ((b \div 100) - (a \div 100))
            + ((b \div 400) - (a \div 400))

(***************************************************************************)
(* Module functions.                                                       *)
(***************************************************************************)
previous_leap_days(y) ==
    IF y <= gregorian_reformation_year
    THEN (y - 1) \div ancient_leapyear_period
    ELSE calendar_leapdays(1, y) + leapdays_function_error

is_leap_year_gregorian(y) == calendar_isleap(y)

is_leap_year(y) ==
    IF y <= gregorian_reformation_year
    THEN (y % ancient_leapyear_period) = 0
    ELSE calendar_isleap(y)

\* sum([sum([x != 0 for x in line]) for line in grid])
count_nonzero(grid) ==
    Cardinality({rc \in (DOMAIN grid) \X (0..6) : grid[rc[1]][rc[2]] # 0})

days_on_month_plain(m, y) ==
    IF is_leap_year(y) /\ month_names[m] = "February"
    THEN month_days[m] + 1
    ELSE month_days[m]

days_on_month(m, y) ==
    IF m = gregorian_reformation_month /\ y = gregorian_reformation_year
    THEN count_nonzero(gregorian_reformation_month_calendar)
    ELSE IF is_leap_year(y) /\ month_names[m] = "February"
         THEN month_days[m] + 1
         ELSE month_days[m]

\* The leap day of the current year, as days_up_to adds it.
leap_day_passed(m, y) ==
    IF calendar_isleap(y) /\ m > index(month_names, "February") THEN 1 ELSE 0

reformation_step_passed_from_month(m, y) ==
    IF y > gregorian_reformation_year
       \/ (y = gregorian_reformation_year /\ m >= gregorian_reformation_month)
    THEN gregorian_reformation_step
    ELSE 0

\* The reformation step, as days_up_to subtracts it.
reformation_step_passed(m, y) ==
    IF y > gregorian_reformation_year
       \/ (y = gregorian_reformation_year /\ m > gregorian_reformation_month)
    THEN gregorian_reformation_step
    ELSE 0

days_up_to(m, y) ==
    (y - 1) * sum_slice(month_days, 1, len(month_days))
        + previous_leap_days(y)
        + sum_slice(month_days, 0, m)
        + leap_day_passed(m, y)
        - reformation_step_passed(m, y)

\* The column of "month 1st, year".
week_day_number(m, y) ==
    (days_up_to(m, y) + index(week_days, "Saturday")) % len(week_days)

\* The matrix month_calendar starts from.
empty_month_calendar == [r \in 0..5 |-> [c \in 0..6 |-> 0]]

next_row_always(r, c) == r + 1

next_row_on_monday(r, c) == IF c = 0 THEN r + 1 ELSE r

\* The row after a write in column c.
next_row(r, c) == IF c = len(week_days) - 1 THEN r + 1 ELSE r

\* The column after a write in column c.
next_column(c) == (c + 1) % len(week_days)

(***************************************************************************)
(* References: a grid a caller received is the module's list object or a   *)
(* list of its own.                                                        *)
(***************************************************************************)
module_ref == [obj |-> "module", cells |-> empty_month_calendar]
fresh_ref(g) == [obj |-> "fresh", cells |-> g]
deref(r) == IF r.obj = "module" THEN gregorian_reformation_month_calendar ELSE r.cells

no_query == [seen |-> FALSE, grid |-> empty_month_calendar]

\* The (month, year) pairs the keeping caller asks for.
AliasQueries == {<<10, 1582>>, <<9, 1582>>}
\* The values it overwrites cells with.
OverwriteValues == {0, 5}

Init ==
    /\ gregorian_reformation_month_calendar = reformation_month_literal
    /\ pc = "idle"
    /\ fn = "none"
    /\ month = 0
    /\ year = 0
    /\ ret = 0
    /\ month_calendar = empty_month_calendar
    /\ row = 0
    /\ column = 0
    /\ mthday = 0
    /\ range_stop = 0
    /\ held = <<>>
    /\ first = [q \in AliasQueries |-> no_query]
    /\ writes = 0
    /\ argv = <<>>
    /\ stdout = <<>>
    /\ stderr = <<>>
    /\ exit_status = -1

(***************************************************************************)
(* Calls of the module functions that return at once.                      *)
(***************************************************************************)
returns(f, m, y, v) ==
    /\ pc' = "returned"
    /\ fn' = f
    /\ month' = m
    /\ year' = y
    /\ ret' = v
    /\ UNCHANGED <<gregorian_reformation_month_calendar, loop_vars, caller_vars, main_vars>>

call_is_leap_year ==
    /\ pc = "idle"
    /\ \E y \in Years : returns("is_leap_year", 0, y, is_leap_year(y))

call_previous_leap_days ==
    /\ pc = "idle"
    /\ \E y \in Years : returns("previous_leap_days", 0, y, previous_leap_days(y))

call_days_on_month(Q) ==
    /\ pc = "idle"
    /\ \E q \in Q : returns("days_on_month", q[1], q[2], days_on_month(q[1], q[2]))

call_days_up_to ==
    /\ pc = "idle"
    /\ \E m \in Months, y \in Years : returns("days_up_to", m, y, days_up_to(m, y))

(***************************************************************************)
(* month_calendar(month, year).                                            *)
(***************************************************************************)
\* Entry: the special case returns the module's list; otherwise the loop starts.
month_calendar_enter(m, y) ==
    /\ fn' = "month_calendar"
    /\ month' = m
    /\ year' = y
    /\ IF m = gregorian_reformation_month /\ y = gregorian_reformation_year
       THEN /\ pc' = "returned"
            /\ ret' = module_ref
            /\ UNCHANGED loop_vars
       ELSE /\ pc' = "loop"
            /\ ret' = 0
            /\ month_calendar' = empty_month_calendar
            /\ row' = 0
            /\ column' = week_day_number(m, y)
            /\ mthday' = 1
            /\ range_stop' = days_on_month(m, y) + 1
    /\ UNCHANGED gregorian_reformation_month_calendar

call_month_calendar(Q) ==
    /\ pc = "idle"
    /\ \E q \in Q : month_calendar_enter(q[1], q[2])
    /\ UNCHANGED <<caller_vars, main_vars>>

\* One iteration: month_calendar[row][column] = mthday, then the advance.
\* A write outside the matrix raises IndexError.
month_calendar_iterate ==
    /\ pc = "loop"
    /\ mthday < range_stop
    /\ IF row \in DOMAIN month_calendar /\ column \in DOMAIN month_calendar[row]
       THEN /\ month_calendar' = [month_calendar EXCEPT ![row][column] = mthday]
            /\ row' = next_row(row, column)
            /\ column' = next_column(column)
            /\ mthday' = mthday + 1
            /\ pc' = "loop"
       ELSE /\ pc' = "IndexError"
            /\ UNCHANGED <<month_calendar, row, column, mthday>>
    /\ UNCHANGED <<gregorian_reformation_month_calendar, fn, month, year, ret,
                   range_stop, caller_vars, main_vars>>

\* The range is exhausted: return the local matrix, a list of its own.
month_calendar_return ==
    /\ pc = "loop"
    /\ mthday >= range_stop
    /\ pc' = "returned"
    /\ ret' = fresh_ref(month_calendar)
    /\ UNCHANGED <<gregorian_reformation_month_calendar, fn, month, year,
                   loop_vars, caller_vars, main_vars>>

\* The call is over: its arguments, locals and result are gone.
call_over ==
    /\ pc' = "idle"
    /\ fn' = "none"
    /\ month' = 0
    /\ year' = 0
    /\ ret' = 0
    /\ month_calendar' = empty_month_calendar
    /\ row' = 0
    /\ column' = 0
    /\ mthday' = 0
    /\ range_stop' = 0

\* A caller that only reads the result drops it.
caller_discard ==
    /\ pc = "returned"
    /\ argv = <<>>
    /\ call_over
    /\ UNCHANGED <<gregorian_reformation_month_calendar, caller_vars, main_vars>>

Next ==
    \/ call_is_leap_year
    \/ call_previous_leap_days
    \/ call_days_on_month(Queries)
    \/ call_days_up_to
    \/ call_month_calendar(Queries)
    \/ month_calendar_iterate
    \/ month_calendar_return
    \/ caller_discard

Spec == Init /\ [][Next]_vars

(***************************************************************************)
(* A library caller that keeps the grids it receives and overwrites their  *)
(* cells.                                                                  *)
(***************************************************************************)
\* The caller takes the result: the first grid of each query is noted, and
\* the reference is kept (while there is room) or dropped.
caller_receive ==
    /\ pc = "returned"
    /\ argv = <<>>
    /\ IF fn = "month_calendar"
       THEN /\ first' = IF first[<<month, year>>].seen
                        THEN first
                        ELSE [first EXCEPT ![<<month, year>>] =
                                    [seen |-> TRUE, grid |-> deref(ret)]]
            /\ \/ /\ Len(held) < MaxHeld
                  /\ held' = Append(held, ret)
               \/ held' = held
       ELSE UNCHANGED <<held, first>>
    /\ call_over
    /\ UNCHANGED <<gregorian_reformation_month_calendar, writes, main_vars>>

\* grid[r][c] = v through a kept reference: the write lands in the list object
\* the reference names.
caller_overwrite ==
    /\ pc = "idle"
    /\ writes < MaxWrites
    /\ \E i \in 1..Len(held), r \in 0..5, c \in 0..6, v \in OverwriteValues :
            IF held[i].obj = "module"
            THEN /\ gregorian_reformation_month_calendar' =
                        [gregorian_reformation_month_calendar EXCEPT ![r][c] = v]
                 /\ held' = held
            ELSE /\ held' = [held EXCEPT ![i].cells[r][c] = v]
                 /\ UNCHANGED gregorian_reformation_month_calendar
    /\ writes' = writes + 1
    /\ UNCHANGED <<pc, fn, month, year, ret, loop_vars, first, main_vars>>

NextAlias ==
    \/ call_days_on_month(AliasQueries)
    \/ call_month_calendar(AliasQueries)
    \/ month_calendar_iterate
    \/ month_calendar_return
    \/ caller_receive
    \/ caller_overwrite

SpecAlias == Init /\ [][NextAlias]_vars

(***************************************************************************)
(* The main program.                                                       *)
(***************************************************************************)
Digits == <<"0", "1", "2", "3", "4", "5", "6", "7", "8", "9">>
is_digit(ch) == \E i \in 1..10 : Digits[i] = ch
digit_value(ch) == (CHOOSE i \in 1..10 : Digits[i] = ch) - 1

\* str.strip() of a text given character by character.
RECURSIVE lstrip(_)
lstrip(s) == IF s # <<>> /\ Head(s) = " " THEN lstrip(Tail(s)) ELSE s
RECURSIVE rstrip(_)
rstrip(s) == IF s # <<>> /\ s[Len(s)] = " " THEN rstrip(SubSeq(s, 1, Len(s) - 1)) ELSE s
strip(s) == rstrip(lstrip(s))

\* The digits of an integer literal: digits, with single underscores between them.
is_literal(b) ==
    /\ b # <<>>
    /\ \A i \in 1..Len(b) :
        \/ is_digit(b[i])
        \/ /\ b[i] = "_"
           /\ 1 < i /\ i < Len(b)
           /\ is_digit(b[i - 1]) /\ is_digit(b[i + 1])

RECURSIVE literal_value(_, _)
literal_value(b, acc) ==
    IF b = <<>> THEN acc
    ELSE IF Head(b) = "_" THEN literal_value(Tail(b), acc)
    ELSE literal_value(Tail(b), 10 * acc + digit_value(Head(b)))

\* int(s): ok is FALSE where Python raises ValueError.
int(s) ==
    LET t == strip(s)
        signed == t # <<>> /\ Head(t) \in {"+", "-"}
        body == IF signed THEN Tail(t) ELSE t
    IN  IF is_literal(body)
        THEN [ok |-> TRUE,
              value |-> IF signed /\ Head(t) = "-"
                        THEN 0 - literal_value(body, 0)
                        ELSE literal_value(body, 0)]
        ELSE [ok |-> FALSE, value |-> 0]

\* str(n), character by character.
RECURSIVE str_natural(_)
str_natural(n) == IF n < 10 THEN <<Digits[n + 1]>> ELSE Append(str_natural(n \div 10), Digits[(n % 10) + 1])
str(n) == IF n < 0 THEN <<"-">> \o str_natural(0 - n) ELSE str_natural(n)

\* s.rjust(width)
RECURSIVE rjust(_, _)
rjust(s, width) == IF Len(s) >= width THEN s ELSE rjust(<<" ">> \o s, width)

\* os.path.basename of a path given by its components.
basename(path) == IF path = <<>> THEN "" ELSE path[Len(path)]

\* The test that raises ValueError after both arguments are parsed.
args_out_of_range_from_zero(m, y) == m < 1 \/ m > 12 \/ y < 0

args_out_of_range(m, y) == m < 1 \/ m > 12 \/ y < 1

\* What ends the try block: "ok", or the exception raised.
try_outcome ==
    IF Len(argv) < 2 THEN "IndexError"
    ELSE IF ~int(argv[2]).ok THEN "ValueError"
    ELSE IF Len(argv) < 3 THEN "IndexError"
    ELSE IF ~int(argv[3]).ok THEN "ValueError"
    ELSE IF args_out_of_range(int(argv[2]).value, int(argv[3]).value) THEN "ValueError"
    ELSE "ok"

usage_message == <<"Usage: ", basename(argv[1]), " month year">>

\* The try block and its handler: the arguments are parsed and checked; on
\* ValueError or IndexError sys.exit(message) prints the message on the
\* standard error and ends the process with status 1.
main_try ==
    /\ pc = "main"
    /\ month' = IF Len(argv) >= 2 /\ int(argv[2]).ok THEN int(argv[2]).value ELSE month
    /\ year' = IF Len(argv) >= 3 /\ int(argv[2]).ok /\ int(argv[3]).ok
               THEN int(argv[3]).value ELSE year
    /\ IF try_outcome = "ok"
       THEN /\ pc' = "print_month"
            /\ UNCHANGED <<stderr, exit_status>>
       ELSE /\ pc' = "exit"
            /\ stderr' = Append(stderr, usage_message)
            /\ exit_status' = 1
    /\ UNCHANGED <<gregorian_reformation_month_calendar, fn, ret, loop_vars,
                   caller_vars, argv, stdout>>

\* print_month calls month_calendar(month, year).
print_month_call ==
    /\ pc = "print_month"
    /\ month_calendar_enter(month, year)
    /\ UNCHANGED <<caller_vars, main_vars>>

\* A row of the days matrix as printed, cell by cell, each followed by a space.
RECURSIVE render_row(_, _)
render_row(cells, c) ==
    IF c > 6 THEN <<>>
    ELSE (IF cells[c] = 0
          THEN [i \in 1..spaces_per_cell |-> " "]
          ELSE rjust(str(cells[c]), spaces_per_cell))
         \o <<" ">> \o render_row(cells, c + 1)

\* The lines print_month prints for matrix mmat: the header (its centring
\* blanks left out), the column titles, the six rows.
render(mmat, m, y) ==
    << <<month_names[m], " ">> \o str(y),
       [i \in 1..14 |-> IF i % 2 = 1 THEN brief_week_days[(i - 1) \div 2] ELSE " "] >>
    \o [r \in 1..6 |-> render_row(mmat[r - 1], 0)]

\* print_month prints the matrix it received; the script ends.
print_month_print ==
    /\ pc = "returned"
    /\ argv # <<>>
    /\ stdout' = stdout \o render(deref(ret), month, year)
    /\ exit_status' = 0
    /\ pc' = "exit"
    /\ UNCHANGED <<gregorian_reformation_month_calendar, fn, month, year, ret,
                   loop_vars, caller_vars, argv, stderr>>

\* The paths the program is started by, component by component.
ProgramPaths == {<<"cal_1582.py">>, <<".", "cal_1582.py">>}

\* The arguments it is given, character by character.
ArgTokens ==
    { <<"1">>, <<"2">>, <<"1", "0">>, <<"1", "2">>, <<"1", "3">>, <<"0">>, <<"-", "1">>,
      <<"x">>, <<>>, <<"1", ".", "5">>, <<" ", "3">>, <<"+", "7">>, <<"1", "_", "1">>,
      <<"1", "5", "8", "2">>, <<"2", "0", "2", "4">> }

Argvs ==
    { <<p>> \o a : p \in ProgramPaths,
                   a \in UNION { [1..n -> ArgTokens] : n \in 0..MaxArgs } }

InitMain ==
    /\ gregorian_reformation_month_calendar = reformation_month_literal
    /\ pc = "main"
    /\ fn = "none"
    /\ month = 0
    /\ year = 0
    /\ ret = 0
    /\ month_calendar = empty_month_calendar
    /\ row = 0
    /\ column = 0
    /\ mthday = 0
    /\ range_stop = 0
    /\ held = <<>>
    /\ first = [q \in AliasQueries |-> no_query]
    /\ writes = 0
    /\ argv \in Argvs
    /\ stdout = <<>>
    /\ stderr = <<>>
    /\ exit_status = -1

NextMain ==
    \/ main_try
    \/ print_month_call
    \/ month_calendar_iterate
    \/ month_calendar_return
    \/ print_month_print

SpecMain == InitMain /\ [][NextMain]_vars

(***************************************************************************)
(* Properties of the library calls.                                        *)
(***************************************************************************)
returned(f) == pc = "returned" /\ fn = f

reformation_query == month = gregorian_reformation_month /\ year = gregorian_reformation_year

\* The cells of a grid in row-major order, indices 0..41.
flat(g) == [i \in 0..41 |-> g[i \div 7][i % 7]]

\* The column of the cell of g that holds day d.
col_of(g, d) == CHOOSE c \in 0..6 : \E r \in 0..5 : g[r][c] = d

\* The month after (m, y).
following(m, y) == IF m = 12 THEN <<1, y + 1>> ELSE <<m + 1, y>>

\* C1: days_up_to(1, 1) = 0, and from every month to the next (December
\* rolling to January of the next year) days_up_to grows by days_on_month of
\* the earlier month, so that days_up_to(month, year) is the sum of
\* days_on_month over the months from January of year 1 up to, and not
\* including, (month, year).
C1_DaysUpToSumsMonths ==
    returned("days_up_to") =>
        /\ (month = 1 /\ year = 1) => ret = 0
        /\ LET n == following(month, year)
           IN  days_up_to(n[1], n[2]) - ret = days_on_month(month, year)

\* C2 as stated: day 1 of a non-reformation month is in row 0 at column
\* (days_up_to(month, year) + 6) mod 7.
C2_DayOneAtOffsetSix ==
    (returned("month_calendar") /\ ~reformation_query) =>
        deref(ret)[0][(days_up_to(month, year) + 6) % 7] = 1

\* C2 amended: day 1 of a non-reformation month is in row 0 at column
\* (days_up_to(month, year) + 5) mod 7, 5 being the index of Saturday when
\* Monday is 0.
C2_DayOneAtOffsetFive ==
    (returned("month_calendar") /\ ~reformation_query) =>
        /\ deref(ret)[0][(days_up_to(month, year) + 5) % 7] = 1
        /\ \A c \in 0..6 : c # (days_up_to(month, year) + 5) % 7 => deref(ret)[0][c] # 1

C2_Witness ==
    /\ returned("month_calendar")
    /\ month = 2 /\ year = 1900
    /\ (days_up_to(month, year) + 5) % 7 = 3
    /\ deref(ret)[0][3] = 1

\* C4: previous_leap_days(year) is the number of years y in [1, year) with
\* is_leap_year(y), and previous_leap_days(year + 1) exceeds it by 1 if
\* is_leap_year(year) and by 0 otherwise.
C4_LeapDaysCountLeapYears ==
    returned("previous_leap_days") =>
        /\ ret = Cardinality({y \in 1..(year - 1) : is_leap_year(y)})
        /\ previous_leap_days(year + 1) - ret = (IF is_leap_year(year) THEN 1 ELSE 0)

C4_Witness ==
    /\ returned("previous_leap_days")
    /\ year = gregorian_reformation_year + 1
    /\ ret = 395

\* C5: the grid of a non-reformation month, read in row-major order, is
\* zeros, then 1, 2, ..., days_on_month(month, year) in consecutive cells,
\* then zeros, with day 1 in row 0.
C5_GridIsContiguousRun ==
    (returned("month_calendar") /\ ~reformation_query) =>
        \E s \in 0..6 :
            \A i \in 0..41 :
                flat(deref(ret))[i] =
                    (IF s <= i /\ i < s + days_on_month(month, year) THEN i - s + 1 ELSE 0)

C5_Witness ==
    /\ returned("month_calendar")
    /\ month = 2 /\ year = 1500
    /\ flat(deref(ret))[5] = 1
    /\ flat(deref(ret))[7] = 3
    /\ flat(deref(ret))[33] = 29
    /\ flat(deref(ret))[34] = 0

\* C6: days_on_month(10, 1582) returns 21, and month_calendar(10, 1582)
\* returns the grid whose nonzero cells in row-major order are 1, 2, 3, 4,
\* 15, 16, ..., 31, each once.
C6_ReformationMonth ==
    /\ (returned("days_on_month") /\ reformation_query) => ret = 21
    /\ (returned("month_calendar") /\ reformation_query) =>
            \A i \in 0..41 :
                flat(deref(ret))[i] = (IF i < 4 THEN i + 1 ELSE IF i < 21 THEN i + 11 ELSE 0)

C6_Witness ==
    /\ returned("month_calendar")
    /\ reformation_query
    /\ deref(ret)[0][3] = 4
    /\ deref(ret)[0][4] = 15

\* C7: is_leap_year(year) is year mod 4 = 0 for years up to 1582, and the
\* Gregorian rule (divisible by 4, and not by 100 unless by 400) after.
C7_LeapYearRule ==
    returned("is_leap_year") =>
        ret = (IF year <= 1582
               THEN year % 4 = 0
               ELSE year % 4 = 0 /\ (year % 100 # 0 \/ year % 400 = 0))

C7_Witness ==
    /\ returned("is_leap_year")
    /\ year = 1500
    /\ ret = TRUE

\* C9: every write of the grid-filling loop has row in 0..5 and column in
\* 0..6, the row counter is 6 only once the last day is written, and a
\* 31-day month whose day 1 is in the last column ends in the sixth row.
C9_WritesStayInGrid ==
    /\ pc # "IndexError"
    /\ (pc = "loop" /\ mthday < range_stop) => (row \in 0..5 /\ column \in 0..6)
    /\ (pc = "loop" /\ row >= 6) => mthday >= range_stop
    /\ (returned("month_calendar") /\ ~reformation_query
            /\ week_day_number(month, year) = 6 /\ days_on_month(month, year) = 31) =>
                /\ \E c \in 0..6 : deref(ret)[5][c] = 31
                /\ row = 5

C9_Witness ==
    /\ returned("month_calendar")
    /\ week_day_number(month, year) = 6
    /\ days_on_month(month, year) = 31
    /\ deref(ret)[0][6] = 1
    /\ deref(ret)[5][1] = 31

\* C10: day 1 of the October 1582 grid is in the column the general
\* computation gives, the last day of the computed September 1582 is in the
\* column cyclically before it, and day 1 of the computed November 1582 is
\* in the column cyclically after that of October's day 31.
C10_ReformationGridFitsNeighbours ==
    /\ (returned("month_calendar") /\ reformation_query) =>
            /\ deref(ret)[0][week_day_number(month, year)] = 1
            /\ col_of(deref(ret), 1) = week_day_number(month, year)
    /\ (returned("month_calendar") /\ month = 9 /\ year = 1582) =>
            (col_of(deref(ret), days_on_month(9, 1582)) + 1) % 7
                = col_of(gregorian_reformation_month_calendar, 1)
    /\ (returned("month_calendar") /\ month = 11 /\ year = 1582) =>
            col_of(deref(ret), 1)
                = (col_of(gregorian_reformation_month_calendar, 31) + 1) % 7

C10_Witness ==
    /\ returned("month_calendar")
    /\ month = 11 /\ year = 1582
    /\ col_of(deref(ret), 1) = 0
    /\ col_of(gregorian_reformation_month_calendar, 31) = 6

(***************************************************************************)
(* Properties of the keeping caller.                                       *)
(***************************************************************************)
\* C3: whatever cells the caller overwrites in grids it received, a later
\* month_calendar(month, year) returns the grid the first call with those
\* arguments returned, days_on_month(10, 1582) returns 21, and the module's
\* data is as the module set it: no returned grid shares storage with it.
C3_ReturnedGridsAreImmutable ==
    /\ (returned("month_calendar") /\ first[<<month, year>>].seen) =>
            deref(ret) = first[<<month, year>>].grid
    /\ (returned("days_on_month") /\ reformation_query) => ret = 21
    /\ gregorian_reformation_month_calendar = reformation_month_literal

(***************************************************************************)
(* Properties of the main program.                                         *)
(***************************************************************************)
\* The arguments as the claim reads them.
month_arg == int(argv[2]).value
year_arg == int(argv[3]).value
bad_arguments ==
    \/ Len(argv) < 3
    \/ ~int(argv[2]).ok
    \/ ~int(argv[3]).ok
    \/ month_arg < 1 \/ month_arg > 12
    \/ year_arg < 1

\* The grid of (m, y), cell by cell: the fixed grid for October 1582, else
\* the days 1..days_on_month(m, y) from the column of day 1 on.
expected_grid(m, y) ==
    IF m = 10 /\ y = 1582
    THEN reformation_month_literal
    ELSE [r \in 0..5 |-> [c \in 0..6 |->
            LET d == 7 * r + c - week_day_number(m, y) + 1
            IN  IF 1 <= d /\ d <= days_on_month(m, y) THEN d ELSE 0]]

\* C8: with a missing argument, one that is no integer, a month outside
\* 1..12 or a year below 1, nothing of a calendar is printed and the process
\* ends with the usage message and status 1; otherwise it never takes that
\* path and ends having printed the calendar of that month.
C8_UsageOrCalendar ==
    /\ pc # "IndexError"
    /\ bad_arguments =>
            /\ stdout = <<>>
            /\ pc = "exit" =>
                    /\ stderr = << <<"Usage: ", basename(argv[1]), " month year">> >>
                    /\ exit_status = 1
    /\ ~bad_arguments =>
            /\ stderr = <<>>
            /\ exit_status # 1
            /\ pc = "exit" =>
                    /\ exit_status = 0
                    /\ stdout = render(expected_grid(month_arg, year_arg), month_arg, year_arg)

C8_Witness ==
    /\ pc = "exit"
    /\ argv = << <<"cal_1582.py">>, <<"1">>, <<"0">> >>
    /\ exit_status = 1
    /\ stderr = << <<"Usage: ", "cal_1582.py", " month year">> >>
    /\ stdout = <<>>

C8_WitnessPrinted ==
    /\ pc = "exit"
    /\ argv = << <<"cal_1582.py">>, <<"2">>, <<"1", "5", "8", "2">> >>
    /\ exit_status = 0
    /\ Len(stdout) = 8
    /\ stdout[3] = <<" ", " ", " ", " ", " ", " ", " ", " ", " ", " ", "1", " ", " ", "2", " ",
                     " ", "3", " ", " ", "4", " ">>

====
